---- MODULE Spec2Model ----
(***************************************************************************)
(* Model of the vector index store of rag_excel                            *)
(* (src/rag_excel/utils/vector_store.py, src/rag_excel/utils/vector_utils.py).*)
(*                                                                         *)
(* The persisted path holds two companion files, index.faiss (the vectors) *)
(* and index.pkl (the docstore).  Several VectorStoreManager instances     *)
(* (one per process or script) work on the same path.  FAISS.save_local    *)
(* writes index.faiss and then index.pkl, FAISS.load_local reads           *)
(* index.faiss and then index.pkl; each file access is one step.           *)
(*                                                                         *)
(* A chunk is identified by its text, a vector by the chunk it embeds.     *)
(*                                                                         *)
(* On top of it: RagChain (src/rag_excel/utils/rag_chain.py), whose QA     *)
(* chain retrieves from the index its manager has loaded, and the server   *)
(* (src/rag_excel/app.py) with its handlers /query and /status.            *)
(***************************************************************************)
EXTENDS Integers, Sequences, FiniteSets, TLC

\* ---------------------------------------------------------------- bounds
MaxDocs == 1          \* documents per create_or_update call
MaxEntries == 3       \* entries the persisted index may grow to
MaxK == 2             \* largest k of a similarity_search call

\* ------------------------------------------------------- program constants
CHUNK_SIZE == 256
CHUNK_OVERLAP == 64

Managers == {1, 2}
TextLens == {0, 200, 300}      \* empty text, one chunk, more than CHUNK_SIZE
Queries == {1, 3}
Thresholds == {4, 7}           \* tenths: config default 0.4, parameter default 0.7

VARIABLES
  dir,        \* the vector store directory exists
  faiss,      \* index.faiss: [st, data], data the vectors (by chunk)
  pkl,        \* index.pkl:   [st, data], data the docstore entries
  pc,         \* per manager: the step its running call is at
  call,       \* per manager: the running call, its arguments and its path
  vs,         \* per manager: self.vector_store
  tmp,        \* per manager: the index load_local has read, docstore pending
  done,       \* history: the call the last step ended, and how it ended
  prev,       \* history: the call the step before it ended
  inst,       \* app.py: rag_chain_instance is not None (its manager is 1)
  qa,         \* RagChain.qa_chain is set (the retriever holds vs[1])
  resp,       \* history: what the last step of RagChain or app.py answered
  loader      \* a source document, the loader run on it and what it returned

vars == <<dir, faiss, pkl, pc, call, vs, tmp, done, prev, inst, qa, resp, loader>>

\* ----------------------------------------------------------------- files
Absent == [st |-> "absent", data |-> <<>>]
Corrupt == [st |-> "corrupt", data |-> <<>>]
File(d) == [st |-> "ok", data |-> d]
Exists(f) == f.st # "absent"

\* ------------------------------------------------------- in-memory index
None == [loaded |-> FALSE, index |-> <<>>, docstore |-> <<>>]
Store(i, d) == [loaded |-> TRUE, index |-> i, docstore |-> d]

\* ---------------------------------------------------------- call results
\* a call returns a value or raises an exception e: "mkdir" (the directory
\* cannot be made), "embed" (the embedding provider fails), "empty" (the
\* library rejects an empty batch), "write" (a file write fails), "noentry"
\* (a position of the index has no docstore entry)
NoRet == [k |-> "none", b |-> FALSE, l |-> <<>>, e |-> ""]
Raised(e) == [k |-> "raised", b |-> FALSE, l |-> <<>>, e |-> e]
RetNone == [k |-> "returned", b |-> FALSE, l |-> <<>>, e |-> ""]
RetBool(x) == [k |-> "returned", b |-> x, l |-> <<>>, e |-> ""]
RetList(x) == [k |-> "returned", b |-> FALSE, l |-> x, e |-> ""]

\* ------------------------------------------------------------ the splitter
\* RecursiveCharacterTextSplitter(chunk_size, chunk_overlap) on a text of n
\* characters: nothing for an empty text, the text itself up to chunk_size,
\* windows of chunk_size advancing by chunk_size - chunk_overlap beyond it.
CeilDiv(a, b) == (a + b - 1) \div b
NumChunks(n) ==
  IF n = 0 THEN 0
  ELSE IF n <= CHUNK_SIZE THEN 1
  ELSE CeilDiv(n - CHUNK_OVERLAP, CHUNK_SIZE - CHUNK_OVERLAP)

\* the chunks of one text, each named by its content: 1 is the text that fits
\* a chunk, 2, 3, ... are the windows of the long text
ChunksOf(n) ==
  IF NumChunks(n) <= 1 THEN [i \in 1..NumChunks(n) |-> 1]
  ELSE [i \in 1..NumChunks(n) |-> i + 1]

\* split_documents(_convert_to_langchain_documents(documents))
RECURSIVE split_documents(_)
split_documents(docs) ==
  IF docs = <<>> THEN <<>> ELSE ChunksOf(Head(docs)) \o split_documents(Tail(docs))

DocLists == UNION {[1..n -> TextLens] : n \in 0..MaxDocs}


\* ------------------------------------------------------------- the search
\* L2 distance of a query to the vector of a chunk (the embedding is a pure
\* function of the text), and FAISS's k nearest positions, nearest first.
Dist(qq, c) == IF qq >= c THEN qq - c ELSE c - qq

Nearer(index, qq, p, r) ==
  \/ Dist(qq, index[p]) < Dist(qq, index[r])
  \/ Dist(qq, index[p]) = Dist(qq, index[r]) /\ p <= r

RECURSIVE NearestFrom(_, _, _, _)
NearestFrom(index, qq, left, n) ==
  IF n = 0 \/ left = {} THEN <<>>
  ELSE LET p == CHOOSE x \in left : \A r \in left : Nearer(index, qq, x, r)
       IN <<p>> \o NearestFrom(index, qq, left \ {p}, n - 1)

Nearest(index, qq, k) == NearestFrom(index, qq, DOMAIN index, k)

\* variant: the filter keeping the results below the threshold
Passes_Below(score, t) == 10 < t * (1 + score)

\* similarity = 1.0 / (1.0 + score) >= threshold, threshold in tenths
Passes(score, t) == 10 >= t * (1 + score)

\* index_to_docstore_id[i] of every returned position resolves
Resolves(store, hits) == \A i \in DOMAIN hits : hits[i] <= Len(store.docstore)

\* docs_with_scores of similarity_search_with_score(query, k)
docs_with_scores(store, qq, k) ==
  LET hits == Nearest(store.index, qq, k)
  IN [i \in DOMAIN hits |->
        [content |-> store.docstore[hits[i]], score |-> Dist(qq, store.index[hits[i]])]]

\* variant: similarity_search returning docs_with_scores unfiltered
filtered_results_Unfiltered(ds, t) == ds

RECURSIVE filtered_results(_, _)
filtered_results(ds, t) ==
  IF ds = <<>> THEN <<>>
  ELSE (IF Passes(Head(ds).score, t) THEN <<Head(ds)>> ELSE <<>>)
         \o filtered_results(Tail(ds), t)

\* ------------------------------------------------------------------ calls
IdleCall == [op |-> "none", ndocs |-> 0, docs |-> <<>>, arg |-> <<>>, branch |-> "none",
             q |-> 1, kk |-> 1, th |-> 4, had |-> FALSE, after |-> FALSE,
             base |-> <<0, 0>>]
NoDone == [m |-> 0, call |-> IdleCall, ret |-> NoRet]

\* ----------------------------------------------------------------- values
\* a Python value of an answer payload: t its type, a the text of a scalar,
\* k the keys of a dict in order (of a str: its text, in pieces), v the items
\* of a list, dict or numpy array in order
Null == [t |-> "null", a |-> "", k |-> <<>>, v |-> <<>>]
Bool(a) == [t |-> "bool", a |-> a, k |-> <<>>, v |-> <<>>]
PyInt(a) == [t |-> "int", a |-> a, k |-> <<>>, v |-> <<>>]
PyFloat(a) == [t |-> "float", a |-> a, k |-> <<>>, v |-> <<>>]
Str(text) == [t |-> "str", a |-> "", k |-> text, v |-> <<>>]
List(v) == [t |-> "list", a |-> "", k |-> <<>>, v |-> v]
Dict(k, v) == [t |-> "dict", a |-> "", k |-> k, v |-> v]
NdArray(v) == [t |-> "ndarray", a |-> "", k |-> <<>>, v |-> v]
NpFloat(a) == [t |-> "npfloat", a |-> a, k |-> <<>>, v |-> <<>>]
Other(a) == [t |-> "other", a |-> a, k |-> <<>>, v |-> <<>>]

\* math.isnan(obj) or math.isinf(obj)
NonFinite == {"nan", "inf", "-inf"}

\* numpy's tolist(): an array becomes a list, a numpy scalar a Python one
tolist(obj) == IF obj.t = "ndarray" THEN List(obj.v) ELSE PyFloat(obj.a)

\* variant: clean_for_json cleaning a float only where it is the whole object
clean_for_json_Shallow(obj) ==
  IF obj.t = "float" /\ obj.a \in NonFinite THEN Null ELSE obj

\* app.py lines 185-207
RECURSIVE clean_for_json(_)
clean_for_json(obj) ==
  CASE obj.t = "dict" -> Dict(obj.k, [i \in DOMAIN obj.v |-> clean_for_json(obj.v[i])])
    [] obj.t = "list" -> List([i \in DOMAIN obj.v |-> clean_for_json(obj.v[i])])
    [] obj.t \in {"ndarray", "npfloat"} -> clean_for_json(tolist(obj))
    [] obj.t \in {"int", "str", "bool", "null"} -> obj
    [] obj.t = "float" -> IF obj.a \in NonFinite THEN Null ELSE obj
    [] OTHER -> Str(<<obj.a>>)

\* the text and the metadata of a chunk, as the loaders and the docstore keep
\* them: a sheet's metadata holds strings, counts, the column headers as read
\* by pandas, and what a parser adds
page_content(c) ==
  CASE c = 1 -> <<"# Scheda: A">>
    [] c = 2 -> <<"# Scheda: B (1)">>
    [] OTHER -> <<"# Scheda: B (2)">>
metadata(c) ==
  CASE c = 1 -> Dict(<<"source", "num_rows", "mean">>,
                     <<Str(<<"dati.xlsx">>), PyInt("3"), PyFloat("nan")>>)
    [] c = 2 -> Dict(<<"source", "column_headers", "has_numeric_data">>,
                     <<Str(<<"dati.xlsx">>),
                       List(<<Str(<<"Regione">>), PyFloat("inf"), PyFloat("2.5"), Null>>),
                       Bool("True")>>)
    [] OTHER -> Dict(<<"source", "totals", "max", "modified">>,
                     <<Str(<<"dati.xlsx">>), NdArray(<<PyFloat("-inf"), PyFloat("1.0")>>),
                       NpFloat("nan"), Other("2024-01-01 00:00:00")>>)

\* ---------------------------------------------------------------- RagChain
MAX_RESULTS == 15

\* the texts of rag_chain.py lines 127 and 161, in pieces; str(e) of the
\* exceptions of the libraries
NotReadyText == <<"Errore:", "Il sistema RAG non e' pronto.">>
ExcText(e) ==
  CASE e = "embed" -> "Connection error."
    [] e = "llm" -> "Error code: 429"
    [] OTHER -> "KeyError"
ApologyText(e) ==
  <<"Mi dispiace, si e' verificato un errore durante l'elaborazione della tua domanda:",
    ExcText(e)>>

\* what the language model may answer
LLMAnswers == {<<"Il fatturato e' 100.">>, <<"La cella riporta", "Errore:", "#DIV/0!">>}
\* what may fail inside the QA chain: nothing, the query embedding, the LLM call
Failures == {"", "embed", "llm"}

\* the retriever of line 71: the MAX_RESULTS nearest chunks, nearest first
source_documents(store, qq) ==
  LET hits == Nearest(store.index, qq, MAX_RESULTS)
  IN [i \in DOMAIN hits |->
        [page_content |-> page_content(store.docstore[hits[i]]),
         metadata |-> metadata(store.docstore[hits[i]])]]

\* variant: the sources listed last retrieved first, without their metadata
format_sources_Reversed(docs) ==
  [i \in DOMAIN docs |->
     [content |-> docs[Len(docs) + 1 - i].page_content, metadata |-> Dict(<<>>, <<>>)]]

\* lines 142-147
format_sources(docs) ==
  [i \in DOMAIN docs |-> [content |-> docs[i].page_content, metadata |-> docs[i].metadata]]

\* line 135, self.qa_chain({"query": question}): retrieve, then ask the model;
\* e is the exception it raises, "" when it returns
qa_chain(store, qq, fail, llm) ==
  LET e == IF fail = "embed" THEN "embed"
           ELSE IF ~Resolves(store, Nearest(store.index, qq, MAX_RESULTS)) THEN "noentry"
           ELSE fail
  IN IF e # "" THEN [e |-> e, result |-> <<>>, source_documents |-> <<>>]
     ELSE [e |-> "", result |-> llm, source_documents |-> source_documents(store, qq)]

NoResult == [answer |-> <<>>, sources |-> <<>>]

\* variant: answer_question without the test of self.qa_chain; calling None
\* raises inside the try
answer_question_Unguarded(ready, store, qq, fail, llm) ==
  LET r == qa_chain(store, qq, fail, llm)
  IN IF ~ready \/ r.e # "" THEN [answer |-> ApologyText(r.e), sources |-> <<>>]
     ELSE [answer |-> r.result, sources |-> format_sources(r.source_documents)]

\* RagChain.answer_question, lines 114-163
answer_question(ready, store, qq, fail, llm) ==
  IF ~ready THEN [answer |-> NotReadyText, sources |-> <<>>]
  ELSE LET r == qa_chain(store, qq, fail, llm)
       IN IF r.e # "" THEN [answer |-> ApologyText(r.e), sources |-> <<>>]
          ELSE [answer |-> r.result, sources |-> format_sources(r.source_documents)]

\* ------------------------------------------------------------------ app.py
\* variant: the marker looked for at the start of the answer only
HasMarker_AtStart(text) == text # <<>> /\ text[1] = "Errore:"

\* "Errore:" in result.get("answer", "")
HasMarker(text) == \E i \in DOMAIN text : text[i] = "Errore:"

\* the payload as a Python value
Payload(result) ==
  Dict(<<"answer", "sources">>,
       <<Str(result.answer),
         List([i \in DOMAIN result.sources |->
                 Dict(<<"content", "metadata">>,
                      <<Str(result.sources[i].content), result.sources[i].metadata>>)])>>)

\* what a step of RagChain or of a handler answered: op the operation, ready
\* whether the QA chain was set, invoked whether answer_question ran, fail
\* what failed inside it, code the HTTP status, body the response
NoOut == [op |-> "none", ready |-> FALSE, invoked |-> FALSE, fail |-> "", q |-> 1,
          code |-> 0, result |-> NoResult, body |-> Null,
          rag_status |-> "", vector_store_exists |-> FALSE, status |-> ""]

\* the call ended with a normal return of create_or_update on some chunks
GoodCou(d) ==
  d.m # 0 /\ d.call.op = "cou" /\ d.ret.k = "returned" /\ d.call.arg # <<>>

\* no loader has run: src the source document (its path, the kinds of its
\* sheets when it is a workbook, the number of its paragraphs, pages, rows or
\* items otherwise), by the loader that was run, env what the environment gave
\* it, ret what it returned
NoSource == [path |-> [stem |-> "", ext |-> ""], sheets |-> <<>>, items |-> 0]
NoEnv == [parser |-> "", open1 |-> FALSE, open2 |-> FALSE]
NoLoader == [src |-> NoSource, by |-> "none", env |-> NoEnv, ret |-> NoRet]

\* ------------------------------------------------------------- bookkeeping
Max(a, b) == IF a >= b THEN a ELSE b

RECURSIVE MaxOver(_, _)
MaxOver(S, f) ==
  IF S = {} THEN 0
  ELSE LET x == CHOOSE y \in S : TRUE IN Max(f[x], MaxOver(S \ {x}, f))

RECURSIVE SumOver(_, _)
SumOver(S, f) ==
  IF S = {} THEN 0
  ELSE LET x == CHOOSE y \in S : TRUE IN f[x] + SumOver(S \ {x}, f)

\* the largest entry count held anywhere, and the chunks of calls under way
Size ==
  Max(Max(Len(faiss.data), Len(pkl.data)),
      MaxOver(Managers, [m \in Managers |->
                Max(Max(Len(vs[m].index), Len(vs[m].docstore)), Len(tmp[m]))]))
Pending == SumOver(Managers, [m \in Managers |-> Len(call[m].arg)])

AllIdle == \A m \in Managers : pc[m] = "idle"

Init ==
  /\ dir = FALSE
  /\ faiss = Absent
  /\ pkl = Absent
  /\ pc = [m \in Managers |-> "idle"]
  /\ call = [m \in Managers |-> IdleCall]
  /\ vs = [m \in Managers |-> None]
  /\ tmp = [m \in Managers |-> <<>>]
  /\ done = NoDone
  /\ prev = NoDone
  /\ inst = FALSE
  /\ qa = FALSE
  /\ resp = NoOut
  /\ loader = NoLoader

\* a step of a manager leaves the RagChain and the server as they are
Server == UNCHANGED <<inst, qa, loader>> /\ resp' = NoOut

\* call c of manager m begins, at step p
Begin(m, c, p) ==
  /\ pc[m] = "idle"
  /\ pc' = [pc EXCEPT ![m] = p]
  /\ call' = [call EXCEPT ![m] = [c EXCEPT !.after = GoodCou(done)]]
  /\ done' = NoDone
  /\ prev' = NoDone
  /\ Server

\* call c of manager m ends with r in its first step
BeginAndFinish(m, c, r) ==
  /\ pc[m] = "idle"
  /\ done' = [m |-> m, call |-> [c EXCEPT !.after = GoodCou(done)], ret |-> r]
  /\ prev' = NoDone
  /\ UNCHANGED <<pc, call>>
  /\ Server

\* the running call of manager m ends with r, having taken path br
Finish(m, r, br) ==
  /\ pc' = [pc EXCEPT ![m] = "idle"]
  /\ done' = [m |-> m, call |-> [call[m] EXCEPT !.branch = br], ret |-> r]
  /\ prev' = done
  /\ call' = [call EXCEPT ![m] = IdleCall]
  /\ Server

\* the running call of manager m goes on at step p, on path br
Goto(m, p, br) ==
  /\ pc' = [pc EXCEPT ![m] = p]
  /\ call' = [call EXCEPT ![m].branch = br]
  /\ done' = NoDone
  /\ prev' = NoDone
  /\ Server

\* ensure_vector_store_path: the directory exists afterwards, or mkdir raised
ensure_vector_store_path(ok) == dir' = (dir \/ ok)

\* --------------------------------------------------------- create_or_update
\* lines 122-126: log, then re-raise
CreateOrUpdateExcept(e) == Raised(e)

\* variant: create_or_update taking a lock on the path, so that a call waits
\* for the call under way
CreateOrUpdateBegin_Locked(m, docs, ok) ==
  LET chunks == split_documents(docs)
      c == [IdleCall EXCEPT !.op = "cou", !.ndocs = Len(docs), !.docs = docs, !.arg = chunks]
  IN
  /\ \A o \in Managers : call[o].op # "cou"
  /\ Size + Pending + Len(chunks) <= MaxEntries
  /\ ensure_vector_store_path(ok)
  /\ IF dir' THEN Begin(m, c, "cou_exists")
             ELSE BeginAndFinish(m, c, CreateOrUpdateExcept("mkdir"))
  /\ UNCHANGED <<faiss, pkl, vs, tmp>>

\* lines 82-94: convert, split, ensure the directory
CreateOrUpdateBegin(m, docs, ok) ==
  LET chunks == split_documents(docs)
      c == [IdleCall EXCEPT !.op = "cou", !.ndocs = Len(docs), !.docs = docs, !.arg = chunks]
  IN
  /\ Size + Pending + Len(chunks) <= MaxEntries
  /\ ensure_vector_store_path(ok)
  /\ IF dir' THEN Begin(m, c, "cou_exists")
             ELSE BeginAndFinish(m, c, CreateOrUpdateExcept("mkdir"))
  /\ UNCHANGED <<faiss, pkl, vs, tmp>>

\* line 102: both files exist -> load(); otherwise a new vector store
CreateOrUpdateExists(m) ==
  /\ pc[m] = "cou_exists"
  /\ IF Exists(faiss) /\ Exists(pkl)
       THEN Goto(m, "ld_check", "none")
       ELSE Goto(m, "cou_new", "create")
  /\ UNCHANGED <<dir, faiss, pkl, vs, tmp>>

\* --------------------------------------------------------------------- load
\* what follows load() in the caller: load() itself, create_or_update
\* (lines 106-117) or similarity_search (lines 187-190); the history field
\* base keeps the entry counts of the index create_or_update has loaded
LoadReturn(m, ok) ==
  CASE call[m].op = "load" -> Finish(m, RetBool(ok), "none")
    [] call[m].op = "cou" ->
         IF ok THEN /\ pc' = [pc EXCEPT ![m] = "cou_add"]
                    /\ call' = [call EXCEPT ![m].branch = "update",
                                            ![m].base = <<Len(vs'[m].index),
                                                          Len(vs'[m].docstore)>>]
                    /\ done' = NoDone
                    /\ prev' = NoDone
                    /\ Server
               ELSE Goto(m, "cou_new", "rebuild")
    [] call[m].op = "ss" ->
         IF ok THEN Goto(m, "ss_search", "none")
               ELSE Finish(m, RetList(<<>>), "loadfail")
    [] call[m].op = "init" ->
         IF ok THEN Goto(m, "init_chain", "none")
               ELSE Finish(m, RetBool(FALSE), "loadfail")

\* variant: load() returning False without clearing self.vector_store
LoadFails_KeepIndex(m) ==
  /\ tmp' = [tmp EXCEPT ![m] = <<>>]
  /\ LoadReturn(m, FALSE)
  /\ UNCHANGED vs

\* lines 162-171: no in-memory index is left behind, load() is False
LoadFails(m) ==
  /\ vs' = [vs EXCEPT ![m] = None]
  /\ tmp' = [tmp EXCEPT ![m] = <<>>]
  /\ LoadReturn(m, FALSE)

LoadBegin(m) ==
  /\ Begin(m, [IdleCall EXCEPT !.op = "load", !.had = vs[m].loaded], "ld_check")
  /\ UNCHANGED <<dir, faiss, pkl, vs, tmp>>

\* lines 148-152 and 162-165: ensure the directory, test both files
LoadCheck(m, ok) ==
  /\ pc[m] = "ld_check"
  /\ ensure_vector_store_path(ok)
  /\ IF dir' /\ Exists(faiss) /\ Exists(pkl)
       THEN Goto(m, "ld_faiss", call[m].branch) /\ UNCHANGED <<vs, tmp>>
       ELSE LoadFails(m)
  /\ UNCHANGED <<faiss, pkl>>

\* line 154, FAISS.load_local: faiss.read_index(index.faiss)
LoadReadFaiss(m) ==
  /\ pc[m] = "ld_faiss"
  /\ IF faiss.st = "ok"
       THEN /\ tmp' = [tmp EXCEPT ![m] = faiss.data]
            /\ Goto(m, "ld_pkl", call[m].branch)
            /\ UNCHANGED vs
       ELSE LoadFails(m)
  /\ UNCHANGED <<dir, faiss, pkl>>

\* line 154, FAISS.load_local: pickle.load(index.pkl), then the assignment
LoadReadPkl(m) ==
  /\ pc[m] = "ld_pkl"
  /\ IF pkl.st = "ok"
       THEN /\ vs' = [vs EXCEPT ![m] = Store(tmp[m], pkl.data)]
            /\ tmp' = [tmp EXCEPT ![m] = <<>>]
            /\ LoadReturn(m, TRUE)
       ELSE LoadFails(m)
  /\ UNCHANGED <<dir, faiss, pkl>>

\* variant: add_documents skipping the chunks the docstore already holds
add_documents_Dedup(store, chunks) ==
  LET fresh(c) == \A i \in DOMAIN store.docstore : store.docstore[i] # c
      new == SelectSeq(chunks, fresh)
  IN Store(store.index \o new, store.docstore \o new)

\* line 109, add_documents: embed the chunks, then append to the index and
\* the docstore; nothing is appended when the embedding call raises.  The
\* library may accept or reject an empty batch.
add_documents(store, chunks) == Store(store.index \o chunks, store.docstore \o chunks)

\* variant: add_documents leaving a truncated index.faiss behind when the
\* embedding call raises
CreateOrUpdateAdd_Truncating(m, ok) ==
  /\ pc[m] = "cou_add"
  /\ IF ok
       THEN /\ vs' = [vs EXCEPT ![m] = add_documents(vs[m], call[m].arg)]
            /\ Goto(m, "sv_faiss", call[m].branch)
            /\ UNCHANGED faiss
       ELSE /\ Finish(m, CreateOrUpdateExcept(IF call[m].arg = <<>> THEN "empty" ELSE "embed"),
                   call[m].branch)
            /\ faiss' = Corrupt
            /\ UNCHANGED vs
  /\ UNCHANGED <<dir, pkl, tmp>>

CreateOrUpdateAdd(m, ok) ==
  /\ pc[m] = "cou_add"
  /\ IF ok
       THEN /\ vs' = [vs EXCEPT ![m] = add_documents(vs[m], call[m].arg)]
            /\ Goto(m, "sv_faiss", call[m].branch)
       ELSE /\ Finish(m, CreateOrUpdateExcept(IF call[m].arg = <<>> THEN "empty" ELSE "embed"),
                   call[m].branch)
            /\ UNCHANGED vs
  /\ UNCHANGED <<dir, faiss, pkl, tmp>>

\* lines 128-134, FAISS.from_documents: embed the chunks and build an index of
\* them alone; it raises on an empty list (no first embedding to size it by)
from_documents(chunks) == Store(chunks, chunks)

\* variant: after a failed load() the new index is built in memory only, the
\* unreadable files stay as they are
CreateNewVectorStore_KeepCorrupt(m, ok) ==
  /\ pc[m] = "cou_new"
  /\ IF ok /\ call[m].arg # <<>>
       THEN /\ vs' = [vs EXCEPT ![m] = from_documents(call[m].arg)]
            /\ IF call[m].branch = "rebuild"
                 THEN Finish(m, RetNone, call[m].branch)
                 ELSE Goto(m, "sv_faiss", call[m].branch)
       ELSE /\ Finish(m, CreateOrUpdateExcept(IF call[m].arg = <<>> THEN "empty" ELSE "embed"),
                   call[m].branch)
            /\ UNCHANGED vs
  /\ UNCHANGED <<dir, faiss, pkl, tmp>>

CreateNewVectorStore(m, ok) ==
  /\ pc[m] = "cou_new"
  /\ IF ok /\ call[m].arg # <<>>
       THEN /\ vs' = [vs EXCEPT ![m] = from_documents(call[m].arg)]
            /\ Goto(m, "sv_faiss", call[m].branch)
       ELSE /\ Finish(m, CreateOrUpdateExcept(IF call[m].arg = <<>> THEN "empty" ELSE "embed"),
                   call[m].branch)
            /\ UNCHANGED vs
  /\ UNCHANGED <<dir, faiss, pkl, tmp>>

\* a file write: done, refused (the file is as before) or broken off (the
\* file is left truncated)
WriteOutcomes == {"ok", "kept", "truncated"}
Written(f, data, out) ==
  CASE out = "ok" -> File(data)
    [] out = "kept" -> f
    [] out = "truncated" -> Corrupt

\* lines 112 and 136, save_local: mkdir, then faiss.write_index(index.faiss)
SaveFaiss(m, out) ==
  /\ pc[m] = "sv_faiss"
  /\ dir' = TRUE
  /\ faiss' = Written(faiss, vs[m].index, out)
  /\ IF out = "ok" THEN Goto(m, "sv_pkl", call[m].branch)
                   ELSE Finish(m, CreateOrUpdateExcept("write"), call[m].branch)
  /\ UNCHANGED <<pkl, vs, tmp>>

\* variant: save_local returning without having written index.pkl
SavePkl_NoWrite(m, out) ==
  /\ pc[m] = "sv_pkl"
  /\ IF out = "ok" THEN Finish(m, RetNone, call[m].branch)
                   ELSE Finish(m, CreateOrUpdateExcept("write"), call[m].branch)
  /\ UNCHANGED <<dir, faiss, pkl, vs, tmp>>

\* lines 112 and 136, save_local: pickle.dump to index.pkl, then the return
SavePkl(m, out) ==
  /\ pc[m] = "sv_pkl"
  /\ out = "ok" => dir
  /\ pkl' = Written(pkl, vs[m].docstore, out)
  /\ IF out = "ok" THEN Finish(m, RetNone, call[m].branch)
                   ELSE Finish(m, CreateOrUpdateExcept("write"), call[m].branch)
  /\ UNCHANGED <<dir, faiss, vs, tmp>>

\* -------------------------------------------------------- similarity_search
\* variant: the handler of similarity_search re-raising as create_or_update's does
SimilaritySearchExcept_Reraise(e) == Raised(e)

\* lines 217-219: log, return []
SimilaritySearchExcept(e) == RetList(<<>>)

\* variant: similarity_search reloading the index from disk at every call
SimilaritySearchBegin_AlwaysLoads(m, qq, k, t) ==
  /\ Begin(m, [IdleCall EXCEPT !.op = "ss", !.q = qq, !.kk = k, !.th = t], "ld_check")
  /\ UNCHANGED <<dir, faiss, pkl, vs, tmp>>

\* lines 185-190: load on demand
SimilaritySearchBegin(m, qq, k, t) ==
  /\ Begin(m, [IdleCall EXCEPT !.op = "ss", !.q = qq, !.kk = k, !.th = t],
           IF vs[m].loaded THEN "ss_search" ELSE "ld_check")
  /\ UNCHANGED <<dir, faiss, pkl, vs, tmp>>

\* lines 195-215: search with scores (the query embedding may raise, and so
\* does a position without docstore entry), filter by threshold
SimilaritySearch(m, ok) ==
  /\ pc[m] = "ss_search"
  /\ IF ok /\ Resolves(vs[m], Nearest(vs[m].index, call[m].q, call[m].kk))
       THEN Finish(m, RetList(filtered_results(
                        docs_with_scores(vs[m], call[m].q, call[m].kk), call[m].th)),
                   "searched")
       ELSE Finish(m, SimilaritySearchExcept(IF ok THEN "noentry" ELSE "embed"), "threw")
  /\ UNCHANGED <<dir, faiss, pkl, vs, tmp>>

\* ------------------------------------------------------- clean_vector_store
\* vector_utils.py lines 31-44, run by a maintenance script: rmtree removes
\* the directory ("removed"), or raises having deleted some files or none
\* ("partial", logged and ignored); then the directory is ensured, and mkdir
\* may raise ("nodir").  The function has no return statement; the script is
\* no manager, its ended call is recorded with m = 0.
CleanOutcomes == {"removed", "partial", "nodir"}
clean_vector_store(out, df, dp) ==
  /\ out = "partial" => dir
  /\ dir' = (out # "nodir")
  /\ faiss' = IF out # "partial" \/ df THEN Absent ELSE faiss
  /\ pkl' = IF out # "partial" \/ dp THEN Absent ELSE pkl
  /\ done' = [m |-> 0, call |-> [IdleCall EXCEPT !.op = "clean"],
              ret |-> IF out = "nodir" THEN Raised("mkdir") ELSE RetNone]
  /\ prev' = NoDone
  /\ Server
  /\ UNCHANGED <<pc, call, vs, tmp>>

\* ------------------------------------------------------------ specification
\* the steps of manager m; Docs are the document lists and Qs the queries it
\* is called with, Oks and Outs the outcomes the environment (embedding
\* provider, file system) may give
Step(m, Docs, Qs, Oks, Outs) ==
  \/ \E docs \in Docs, ok \in Oks : CreateOrUpdateBegin(m, docs, ok)
  \/ CreateOrUpdateExists(m)
  \/ \E ok \in Oks : CreateOrUpdateAdd(m, ok)
  \/ \E ok \in Oks : CreateNewVectorStore(m, ok)
  \/ \E out \in Outs : SaveFaiss(m, out)
  \/ \E out \in Outs : SavePkl(m, out)
  \/ LoadBegin(m)
  \/ \E ok \in Oks : LoadCheck(m, ok)
  \/ LoadReadFaiss(m)
  \/ LoadReadPkl(m)
  \/ \E qq \in Qs, k \in 1..MaxK, t \in Thresholds : SimilaritySearchBegin(m, qq, k, t)
  \/ \E ok \in Oks : SimilaritySearch(m, ok)

Clean(Outs) == \E out \in Outs, df \in BOOLEAN, dp \in BOOLEAN : clean_vector_store(out, df, dp)

\* managers and the maintenance script run concurrently on the same path;
\* the embedding provider and the file system do not fail, every call indexes
\* one short document
Next ==
  \/ \E m \in Managers : Step(m, {<<200>>}, {1}, {TRUE}, {"ok"})
  \/ Clean({"removed"})

Spec == Init /\ [][Next]_vars

\* one call at a time: a call begins only when no other call is under way;
\* embedding calls, writes, mkdir and rmtree may fail
SeqNext ==
  \/ \E m \in Managers : (\A o \in Managers \ {m} : pc[o] = "idle")
                            /\ Step(m, DocLists, Queries, BOOLEAN, WriteOutcomes)
  \/ AllIdle /\ Clean(CleanOutcomes)

SeqSpec == Init /\ [][SeqNext]_vars

\* ------------------------------------------------------ RagChain.initialize
\* the manager of the RagChain the server holds
vector_store_manager == 1
\* the manager of the indexing scripts
script == 2

\* variant: initialize() without the reset of line 62
InitializeBegin_NoReset(m) ==
  /\ pc[m] = "idle"
  /\ pc' = [pc EXCEPT ![m] = "ld_check"]
  /\ call' = [call EXCEPT ![m] = [IdleCall EXCEPT !.op = "init", !.had = qa]]
  /\ done' = NoDone
  /\ prev' = NoDone
  /\ resp' = NoOut
  /\ UNCHANGED <<faiss, pkl, vs, tmp, qa, loader>>

\* lines 61-65: the QA chain is reset, then load() is called; the history
\* field had keeps whether the chain was set
InitializeBegin(m) ==
  /\ pc[m] = "idle"
  /\ qa' = FALSE
  /\ pc' = [pc EXCEPT ![m] = "ld_check"]
  /\ call' = [call EXCEPT ![m] = [IdleCall EXCEPT !.op = "init", !.had = qa]]
  /\ done' = NoDone
  /\ prev' = NoDone
  /\ resp' = NoOut
  /\ UNCHANGED <<faiss, pkl, vs, tmp, loader>>

\* lines 69-100: retriever, prompt and QA chain are constructed and the chain
\* is set, or a constructor raises and the chain is None
InitializeChain(m, ok) ==
  /\ pc[m] = "init_chain"
  /\ qa' = ok
  /\ pc' = [pc EXCEPT ![m] = "idle"]
  /\ done' = [m |-> m,
              call |-> [call[m] EXCEPT !.branch = IF ok THEN "ready" ELSE "threw"],
              ret |-> RetBool(ok)]
  /\ prev' = done
  /\ call' = [call EXCEPT ![m] = IdleCall]
  /\ resp' = NoOut
  /\ UNCHANGED <<dir, faiss, pkl, vs, tmp, inst, loader>>

\* initialize() called again on the RagChain
Initialize == InitializeBegin(vector_store_manager) /\ UNCHANGED <<dir, inst>>

\* app.py lines 47-87, lifespan: the directory is ensured (startup ends there
\* when mkdir raises), the instance is made and initialize() is called
Lifespan(ok) ==
  /\ ~inst
  /\ ensure_vector_store_path(ok)
  /\ IF dir' THEN inst' = TRUE /\ InitializeBegin(vector_store_manager)
             ELSE UNCHANGED <<faiss, pkl, pc, call, vs, tmp, done, prev, inst, qa, resp,
                               loader>>

\* a step of RagChain or of a handler that answers r
Answers(r) ==
  /\ resp' = r
  /\ done' = NoDone
  /\ prev' = NoDone
  /\ UNCHANGED <<dir, faiss, pkl, pc, call, vs, tmp, inst, qa, loader>>

\* answer_question called on the RagChain
AnswerQuestion(qq, fail, llm) ==
  Answers([NoOut EXCEPT !.op = "answer", !.ready = qa, !.invoked = TRUE, !.q = qq,
                        !.fail = IF qa THEN fail ELSE "",
                        !.result = answer_question(qa, vs[vector_store_manager], qq, fail, llm)])

\* ------------------------------------------------------------------ /query
Detail(text) == Dict(<<"detail">>, <<Str(text)>>)
NotReadyDetail ==
  <<"Il sistema RAG non e' pronto. Potrebbe essere necessario creare il vector store.">>

\* lines 118-138: answer_question, the test of the marker, clean_for_json
query_rag_try(ready, store, qq, fail, llm) ==
  LET result == answer_question(ready, store, qq, fail, llm)
      r == [NoOut EXCEPT !.op = "query", !.ready = ready, !.invoked = TRUE, !.q = qq,
                         !.fail = IF ready THEN fail ELSE "", !.result = result]
  IN IF HasMarker(result.answer)
       THEN [r EXCEPT !.code = 500,
                      !.body = Detail(<<"Errore interno del sistema RAG:">> \o result.answer)]
       ELSE [r EXCEPT !.code = 200, !.body = clean_for_json(Payload(result))]

\* variant: query_rag without the test of line 111
query_rag_Unguarded(instance, ready, store, qq, fail, llm) ==
  query_rag_try(instance /\ ready, store, qq, fail, llm)

\* lines 104-150
query_rag(instance, ready, store, qq, fail, llm) ==
  IF ~instance \/ ~ready
    THEN [NoOut EXCEPT !.op = "query", !.q = qq, !.code = 503, !.body = Detail(NotReadyDetail)]
    ELSE query_rag_try(ready, store, qq, fail, llm)

\* variant: a handler that calls initialize() again when the chain is not set
QueryRag_Reinitializes(qq, fail, llm) ==
  IF inst /\ ~qa
    THEN Initialize
    ELSE Answers(query_rag(inst, qa, vs[vector_store_manager], qq, fail, llm))

QueryRag(qq, fail, llm) ==
  Answers(query_rag(inst, qa, vs[vector_store_manager], qq, fail, llm))

\* ----------------------------------------------------------------- /status
\* variant: get_status looking for index.faiss only
get_status_FaissOnly(instance, ready, f, p) ==
  [NoOut EXCEPT !.op = "status", !.ready = instance /\ ready, !.code = 200,
                !.vector_store_exists = Exists(f),
                !.rag_status = IF instance /\ ready THEN "inizializzato_e_pronto"
                               ELSE IF Exists(f)
                                      THEN "vector_store_presente_ma_rag_non_inizializzato"
                                      ELSE "vector_store_non_trovato",
                !.status = IF instance /\ ready THEN "ready" ELSE "not_ready"]

\* variant: get_status reporting ready from the files on disk
get_status_ByFiles(instance, ready, f, p) ==
  LET vector_store_exists == Exists(f) /\ Exists(p)
  IN [NoOut EXCEPT !.op = "status", !.ready = instance /\ ready, !.code = 200,
                   !.vector_store_exists = vector_store_exists,
                   !.rag_status = IF vector_store_exists THEN "inizializzato_e_pronto"
                                  ELSE "vector_store_non_trovato",
                   !.status = IF vector_store_exists THEN "ready" ELSE "not_ready"]

\* lines 152-183; line 180: status is "ready" exactly for the first rag_status
get_status(instance, ready, f, p) ==
  LET vector_store_exists == Exists(f) /\ Exists(p)
      rag_status == IF instance /\ ready THEN "inizializzato_e_pronto"
                    ELSE IF vector_store_exists
                           THEN "vector_store_presente_ma_rag_non_inizializzato"
                           ELSE "vector_store_non_trovato"
  IN [NoOut EXCEPT !.op = "status", !.ready = instance /\ ready, !.code = 200,
                   !.vector_store_exists = vector_store_exists,
                   !.rag_status = rag_status,
                   !.status = IF rag_status = "inizializzato_e_pronto"
                                THEN "ready" ELSE "not_ready"]

GetStatus == Answers(get_status(inst, qa, faiss, pkl))

\* the server (its RagChain on manager vector_store_manager) and the indexing
\* and maintenance scripts (manager script) on the same path, one call at a
\* time; embedding calls, the LLM call, writes, mkdir and rmtree may fail
AppDocs == {<<200>>, <<300>>}
AppNext ==
  \/ AllIdle /\ \E ok \in BOOLEAN : Lifespan(ok)
  \/ AllIdle /\ Initialize
  \/ \E ok \in BOOLEAN : LoadCheck(vector_store_manager, ok)
  \/ LoadReadFaiss(vector_store_manager)
  \/ LoadReadPkl(vector_store_manager)
  \/ \E ok \in BOOLEAN : InitializeChain(vector_store_manager, ok)
  \/ AllIdle /\ \E qq \in Queries, fail \in Failures, llm \in LLMAnswers :
                  AnswerQuestion(qq, fail, llm)
  \/ AllIdle /\ \E qq \in Queries, fail \in Failures, llm \in LLMAnswers :
                  QueryRag(qq, fail, llm)
  \/ AllIdle /\ GetStatus
  \/ AllIdle /\ \E docs \in AppDocs, ok \in BOOLEAN : CreateOrUpdateBegin(script, docs, ok)
  \/ CreateOrUpdateExists(script)
  \/ \E ok \in BOOLEAN : LoadCheck(script, ok)
  \/ LoadReadFaiss(script)
  \/ LoadReadPkl(script)
  \/ \E ok \in BOOLEAN : CreateOrUpdateAdd(script, ok)
  \/ \E ok \in BOOLEAN : CreateNewVectorStore(script, ok)
  \/ \E o \in WriteOutcomes : SaveFaiss(script, o)
  \/ \E o \in WriteOutcomes : SavePkl(script, o)
  \/ AllIdle /\ Clean(CleanOutcomes)

AppSpec == Init /\ [][AppNext]_vars

\* the server process as app.py runs it: initialize() is called by lifespan
\* alone and answer_question by the /query handler alone; the scripts work on
\* the same path
ServerNext ==
  \/ AllIdle /\ \E ok \in BOOLEAN : Lifespan(ok)
  \/ \E ok \in BOOLEAN : LoadCheck(vector_store_manager, ok)
  \/ LoadReadFaiss(vector_store_manager)
  \/ LoadReadPkl(vector_store_manager)
  \/ \E ok \in BOOLEAN : InitializeChain(vector_store_manager, ok)
  \/ AllIdle /\ \E qq \in Queries, fail \in Failures, llm \in LLMAnswers :
                  QueryRag(qq, fail, llm)
  \/ AllIdle /\ GetStatus
  \/ AllIdle /\ \E docs \in AppDocs, ok \in BOOLEAN : CreateOrUpdateBegin(script, docs, ok)
  \/ CreateOrUpdateExists(script)
  \/ \E ok \in BOOLEAN : LoadCheck(script, ok)
  \/ LoadReadFaiss(script)
  \/ LoadReadPkl(script)
  \/ \E ok \in BOOLEAN : CreateOrUpdateAdd(script, ok)
  \/ \E ok \in BOOLEAN : CreateNewVectorStore(script, ok)
  \/ \E o \in WriteOutcomes : SaveFaiss(script, o)
  \/ \E o \in WriteOutcomes : SavePkl(script, o)
  \/ AllIdle /\ Clean(CleanOutcomes)

ServerSpec == Init /\ [][ServerNext]_vars

\* ------------------------------------------------------------- the loaders
\* the largest workbook (sheets) and the largest other document (paragraphs,
\* pages, rows or list items)
MaxSheets == 3
MaxItems == 2

\* a sheet has rows and converts, is empty, or has rows and its conversion
\* to Markdown raises
SheetKinds == {"rows", "empty", "bad"}
Workbooks == UNION {[1..n -> SheetKinds] : n \in 1..MaxSheets}

Exts == {".xlsx", ".docx", ".pdf", ".csv", ".json", ".xml", ".html", ".txt"}
Path(e) == [stem |-> "dati", ext |-> e]

\* document_loader.py lines 48-69: the type by the extension, ValueError
\* ("unsupported") for any other
detect_file_type(path) ==
  CASE path.ext \in {".xlsx", ".xls"} -> "excel"
    [] path.ext \in {".docx", ".doc"} -> "word"
    [] path.ext = ".pdf" -> "pdf"
    [] path.ext = ".csv" -> "csv"
    [] path.ext = ".json" -> "json"
    [] path.ext \in {".xml", ".html"} -> "xml"
    [] OTHER -> "unsupported"

Sources ==
  {[path |-> Path(e), sheets |-> w, items |-> 0] :
     e \in {x \in Exts : detect_file_type(Path(x)) = "excel"}, w \in Workbooks}
  \cup
  {[path |-> Path(e), sheets |-> <<>>, items |-> n] :
     e \in {x \in Exts : detect_file_type(Path(x)) # "excel"}, n \in 0..MaxItems}

\* a unit: {"page_content": ..., "metadata": {...}}
Unit(c, md) == [page_content |-> c, metadata |-> md]

\* {**a, **b}: the keys of both, the values of b where both have the key
Merge(a, b) ==
  [k \in DOMAIN a \cup DOMAIN b |-> IF k \in DOMAIN b THEN b[k] ELSE a[k]]

\* excel_loader.py lines 88-98: the unit of sheet i
excel_document(path, i) ==
  Unit(<<"# Scheda:", "markdown">>,
       [source |-> path, sheet_name |-> i, num_rows |-> 1, column_headers |-> <<"nome">>])

\* enhanced_excel_loader.py lines 174-189: the unit of sheet i
pandas_document(path, i) ==
  Unit(<<"# Scheda:", "markdown">>,
       [source |-> path, sheet_name |-> i, num_rows |-> 1, num_columns |-> 1,
        column_headers |-> <<"nome">>, key_columns |-> <<"nome">>,
        has_numeric_data |-> FALSE, has_date_data |-> FALSE,
        document_type |-> "excel", content_type |-> "table", parser |-> "pandas"])

\* variant: the handler of a failed sheet conversion re-raising
SheetExcept_Reraise(rest) == Raised("sheet")

\* excel_loader.py lines 101-106, enhanced_excel_loader.py lines 192-194:
\* log, continue with the sheets that follow
SheetExcept(rest) == rest

\* the loop over the sheets from sheet i on (excel_loader.py lines 70-106,
\* enhanced_excel_loader.py lines 147-194): an empty sheet is skipped, a sheet
\* whose conversion raises is skipped, any other sheet appends one unit
RECURSIVE sheet_documents(_, _, _)
sheet_documents(src, enhanced, i) ==
  IF i > Len(src.sheets) THEN RetList(<<>>)
  ELSE LET rest == sheet_documents(src, enhanced, i + 1)
       IN IF src.sheets[i] = "empty" THEN rest
          ELSE IF src.sheets[i] = "bad" THEN SheetExcept(rest)
          ELSE IF rest.k = "raised" THEN rest
          ELSE RetList(<<IF enhanced THEN pandas_document(src.path, i)
                                     ELSE excel_document(src.path, i)>> \o rest.l)

\* ExcelLoader.get_documents, lines 56-109: load() raises when the file is
\* missing or cannot be read (open is FALSE)
ExcelLoader_get_documents(src, open) ==
  IF ~open THEN Raised("open") ELSE sheet_documents(src, FALSE, 1)

\* EnhancedExcelLoader.get_documents_from_pandas, lines 133-197
get_documents_from_pandas(src, open) ==
  IF ~open THEN Raised("open") ELSE sheet_documents(src, TRUE, 1)

\* EnhancedExcelLoader.load_with_unstructured, lines 77-131: the elements the
\* library gives, with the metadata of lines 109-116, or the pandas fallback
load_with_unstructured(src, parser, open) ==
  IF parser = "elements"
    THEN RetList(<<Unit(<<"tabella">>,
                        Merge([page_name |-> 1, text_as_html |-> "<table>"],
                              [source |-> src.path, document_type |-> "excel",
                               sheet_name |-> 1, content_type |-> "table",
                               parser |-> "unstructured"]))>>)
    ELSE get_documents_from_pandas(src, open)

\* what the unstructured library may do: not used (use_unstructured False),
\* give elements, raise
UnstructuredOutcomes == {"off", "elements", "raises"}

\* EnhancedExcelLoader.get_documents, lines 199-214
EnhancedExcelLoader_get_documents(src, parser, open1, open2) ==
  IF parser = "off" THEN get_documents_from_pandas(src, open1)
  ELSE LET r == load_with_unstructured(src, parser, open1)
       IN IF r.k = "raised" THEN get_documents_from_pandas(src, open2) ELSE r

\* what LlamaParse may do: no API key, documents without or with metadata, no
\* document, raise
LlamaOutcomes == {"nokey", "docs", "docs_meta", "nodocs", "raises"}

\* document_loader.py lines 232-244: the units of the LlamaParse documents
llama_documents(src, parser) ==
  LET md == [source |-> src.path, document_type |-> "excel_llamaparse"]
  IN <<Unit(<<"markdown">>,
            IF parser = "docs_meta" THEN Merge(md, [file_name |-> src.path]) ELSE md)>>

\* document_loader.py lines 252-262: the unit that stands for a failed workbook
error_document(src, e) ==
  Unit(<<"Errore durante il caricamento del file Excel:", e>>,
       [source |-> src.path, document_type |-> "error", error |-> e])

\* DocumentLoader(path).get_documents(), lines 35-45, 71-151 and 214-367: the
\* constructor raises on an unsupported extension, load() raises when the file
\* is missing or unreadable; open2 is whether the second reading of a workbook
\* (line 251) succeeds
DocumentLoader_get_documents(src, parser, open1, open2) ==
  LET type == detect_file_type(src.path)
      numbered(key) ==
        [i \in 1..src.items |->
           Unit(<<type, "testo">>,
                Merge([source |-> src.path, document_type |-> type],
                      [k \in {key} |-> i]))]
      whole == Unit(<<type, "testo">>, [source |-> src.path, document_type |-> type])
  IN IF type = "unsupported" THEN Raised("type")
     ELSE IF ~open1 THEN Raised("open")
     ELSE CASE type = "excel" ->
                 IF parser \in {"docs", "docs_meta"}
                   THEN RetList(llama_documents(src, parser))
                   ELSE LET r == ExcelLoader_get_documents(src, open2)
                        IN IF r.k = "raised" THEN RetList(<<error_document(src, r.e)>>)
                                             ELSE r
            [] type = "word" -> RetList(numbered("paragraph_number"))
            [] type = "pdf" -> RetList(numbered("page_number"))
            [] type = "csv" ->
                 RetList([i \in 1..src.items |->
                            Unit(<<"Riga:", "nome:", "valore">>,
                                 Merge([source |-> src.path, document_type |-> "csv",
                                        row_number |-> i],
                                       [nome |-> "valore"]))])
            [] type = "json" -> RetList(<<whole>> \o numbered("item_number"))
            [] type = "xml" -> RetList(<<whole>>)

\* a loader is run once on the source document
Loads(by, env, r) ==
  /\ loader.by = "none"
  /\ loader' = [loader EXCEPT !.by = by, !.env = env, !.ret = r]
  /\ UNCHANGED <<dir, faiss, pkl, pc, call, vs, tmp, done, prev, inst, qa, resp>>

ExcelLoaderGetDocuments(open) ==
  /\ detect_file_type(loader.src.path) = "excel"
  /\ Loads("ExcelLoader", [NoEnv EXCEPT !.open1 = open],
           ExcelLoader_get_documents(loader.src, open))

EnhancedExcelLoaderGetDocuments(parser, open1, open2) ==
  /\ detect_file_type(loader.src.path) = "excel"
  /\ Loads("EnhancedExcelLoader", [parser |-> parser, open1 |-> open1, open2 |-> open2],
           EnhancedExcelLoader_get_documents(loader.src, parser, open1, open2))

DocumentLoaderGetDocuments(parser, open1, open2) ==
  Loads("DocumentLoader", [parser |-> parser, open1 |-> open1, open2 |-> open2],
        DocumentLoader_get_documents(loader.src, parser, open1, open2))

\* any source document, nothing indexed
LoaderInit ==
  /\ dir = FALSE
  /\ faiss = Absent
  /\ pkl = Absent
  /\ pc = [m \in Managers |-> "idle"]
  /\ call = [m \in Managers |-> IdleCall]
  /\ vs = [m \in Managers |-> None]
  /\ tmp = [m \in Managers |-> <<>>]
  /\ done = NoDone
  /\ prev = NoDone
  /\ inst = FALSE
  /\ qa = FALSE
  /\ resp = NoOut
  /\ loader \in {[NoLoader EXCEPT !.src = src] : src \in Sources}

LoaderNext ==
  \/ \E open \in BOOLEAN : ExcelLoaderGetDocuments(open)
  \/ \E parser \in UnstructuredOutcomes, open1 \in BOOLEAN, open2 \in BOOLEAN :
       EnhancedExcelLoaderGetDocuments(parser, open1, open2)
  \/ \E parser \in LlamaOutcomes, open1 \in BOOLEAN, open2 \in BOOLEAN :
       DocumentLoaderGetDocuments(parser, open1, open2)

LoaderSpec == LoaderInit /\ [][LoaderNext]_vars

\* ==================================================================== claims
Ended(o) == done.m # 0 /\ done.call.op = o
Returned(o) == Ended(o) /\ done.ret.k = "returned"
BothExist == Exists(faiss) /\ Exists(pkl)

\* C1 (as claimed): create_or_update on an empty document list is a no-op that
\* returns: it never reaches a write of index.faiss or index.pkl, and, the
\* directory being there, it does not end in an exception.
C1_EmptyIsNoOp ==
  /\ \A m \in Managers :
       call[m].op = "cou" /\ call[m].ndocs = 0 => pc[m] \notin {"sv_faiss", "sv_pkl"}
  /\ Ended("cou") /\ done.call.ndocs = 0 /\ done.ret.e # "mkdir" => done.ret.k = "returned"

\* C2 (as claimed): a load or search that ends while a create_or_update of
\* another manager is under way holds a whole pair: the vectors and the
\* docstore entries it has read are those of one and the same save.
C2_ReaderSeesWholePair ==
  \A r \in Managers :
    (/\ done.m = r
     /\ done.call.op \in {"load", "ss"}
     /\ vs[r].loaded
     /\ \E w \in Managers \ {r} : call[w].op = "cou")
    => vs[r].index = vs[r].docstore

\* C3 (as claimed): when the embedding call fails inside create_or_update the
\* call returns a value: the exception does not leave it.
C3_NoExceptionLeaves == Ended("cou") /\ done.ret.e = "embed" => done.ret.k = "returned"

\* C4: load() on a directory holding only one of the two files, or neither,
\* returns False and leaves the manager without in-memory index.
C4_LoadPartialReturnsFalse ==
  Ended("load") /\ ~BothExist => done.ret = RetBool(FALSE) /\ vs[done.m] = None

\* C4 witness: such a load() has ended on a manager that held an index, with
\* exactly one of the two files present.
C4_Witness ==
  /\ Ended("load") /\ done.call.had
  /\ Exists(faiss) # Exists(pkl)
  /\ done.ret = RetBool(FALSE) /\ vs[done.m] = None

\* C5 (as claimed): every in-memory index has as many vectors as docstore
\* entries, and every position a search can return has a docstore entry.
C5_CardinalityInvariant ==
  \A m \in Managers :
    vs[m].loaded =>
      /\ Len(vs[m].index) = Len(vs[m].docstore)
      /\ \A qq \in Queries, k \in 1..MaxK : Resolves(vs[m], Nearest(vs[m].index, qq, k))

\* C6: nothing serializes the writers: while a create_or_update is under way
\* an idle manager can begin its own, and a writer on the update path persists
\* the docstore it loaded plus its own chunks, whatever was persisted since.
C6_WritersNotSerialized ==
  /\ \A m \in Managers :
       (/\ pc[m] = "idle"
        /\ \E o \in Managers \ {m} : call[o].op = "cou"
        /\ Size + Pending + 1 <= MaxEntries)
       => ENABLED CreateOrUpdateBegin(m, <<200>>, TRUE)
  /\ Returned("cou") /\ done.call.branch = "update"
       => /\ pkl = File(vs[done.m].docstore)
          /\ Len(pkl.data) = done.call.base[2] + Len(done.call.arg)

\* C6 witness (lost update): two create_or_update calls of different managers
\* loaded the same index, both returned, and the persisted index holds the
\* chunks of the second only.
C6_Witness ==
  /\ GoodCou(prev) /\ GoodCou(done) /\ prev.m # done.m
  /\ prev.call.branch = "update" /\ done.call.branch = "update"
  /\ prev.call.base = done.call.base
  /\ faiss = pkl /\ pkl.st = "ok"
  /\ Len(pkl.data) = done.call.base[2] + Len(done.call.arg)
  /\ Len(pkl.data) < done.call.base[2] + Len(prev.call.arg) + Len(done.call.arg)

\* C7: a returned create_or_update leaves Len(chunks) entries when it built a
\* new index and Len(chunks) more than it loaded when it updated one, in both
\* files: nothing is deduplicated.
C7_Accumulates ==
  Returned("cou") =>
    LET n == Len(done.call.arg)
        b == IF done.call.branch = "update" THEN done.call.base ELSE <<0, 0>>
    IN /\ faiss.st = "ok" /\ Len(faiss.data) = b[1] + n
       /\ pkl.st = "ok" /\ Len(pkl.data) = b[2] + n

\* C7 witness: the same chunks indexed twice in a row; the index holds them twice.
C7_Witness ==
  /\ GoodCou(done) /\ done.call.branch = "update" /\ done.call.after
  /\ pkl.data = done.call.arg \o done.call.arg
  /\ faiss.data = done.call.arg \o done.call.arg
  /\ Len(pkl.data) = 2 * Len(done.call.arg)

\* C8: when both files are present and load() fails, a returned
\* create_or_update has persisted exactly the incoming chunks.
C8_CorruptIsRebuilt ==
  Returned("cou") /\ done.call.branch = "rebuild" =>
    /\ faiss = File(done.call.arg)
    /\ pkl = File(done.call.arg)
    /\ vs[done.m] = Store(done.call.arg, done.call.arg)

\* C8 witness: a rebuild has returned.
C8_Witness ==
  /\ Returned("cou") /\ done.call.branch = "rebuild" /\ done.call.arg # <<>>
  /\ pkl = File(done.call.arg)

\* C9: when create_or_update returns on a non-empty chunk list both files
\* exist and hold the in-memory index, and a load() that follows returns True.
C9_ReturnedMeansPersisted ==
  /\ GoodCou(done) =>
       /\ faiss.st = "ok" /\ pkl.st = "ok"
       /\ vs[done.m] = Store(faiss.data, pkl.data)
  /\ Ended("load") /\ done.call.after => done.ret = RetBool(TRUE)

\* C9 witness: a load() right after a returned create_or_update has ended.
C9_Witness == Ended("load") /\ done.call.after /\ done.ret = RetBool(TRUE)

\* C10: similarity_search never ends in an exception, and returns [] when the
\* load on demand fails, when the search raises and when no result reaches
\* the threshold.
C10_SearchNeverRaises ==
  Ended("ss") =>
    /\ done.ret.k = "returned"
    /\ done.call.branch \in {"loadfail", "threw"} => done.ret.l = <<>>
    /\ (/\ done.call.branch = "searched"
        /\ \A h \in DOMAIN docs_with_scores(vs[done.m], done.call.q, done.call.kk) :
             ~Passes(docs_with_scores(vs[done.m], done.call.q, done.call.kk)[h].score,
                     done.call.th))
       => done.ret.l = <<>>

\* C10 witness: a search that raised inside has ended with [].
C10_Witness == Ended("ss") /\ done.call.branch = "threw" /\ done.ret = RetList(<<>>)

\* what the search of the call that has just ended found before the filter,
\* and what the filter leaves of it at threshold t
FoundByDone == docs_with_scores(vs[done.m], done.call.q, done.call.kk)
Contains(l, x) == \E j \in DOMAIN l : l[j] = x

\* C11: a list returned by similarity_search has at most k entries, each of
\* similarity >= threshold, in ascending order of distance (descending
\* similarity), the order of the index.
C11_ResultsBoundedFilteredOrdered ==
  Ended("ss") =>
    LET l == done.ret.l
    IN /\ Len(l) <= done.call.kk
       /\ \A i \in DOMAIN l : 10 >= done.call.th * (1 + l[i].score)
       /\ \A i, j \in DOMAIN l : i < j => l[i].score <= l[j].score
       /\ done.call.branch = "searched" =>
            \A i, j \in DOMAIN l : i < j =>
              \E a, b \in DOMAIN FoundByDone :
                a < b /\ FoundByDone[a] = l[i] /\ FoundByDone[b] = l[j]

\* C11 witness: a search has returned k = 2 entries at different distances,
\* a third chunk of the index left out.
C11_Witness ==
  /\ Ended("ss") /\ done.call.branch = "searched" /\ done.call.kk = 2
  /\ Len(done.ret.l) = 2 /\ done.ret.l[1].score < done.ret.l[2].score
  /\ Len(vs[done.m].index) = 3

\* C12: on the index, query and k of a search that has ended, the result at
\* a lower threshold contains every entry of the result at a higher one.
C12_ThresholdMonotone ==
  Ended("ss") /\ done.call.branch = "searched" =>
    /\ done.ret.l = filtered_results(FoundByDone, done.call.th)
    /\ \A t \in Thresholds :
         LET other == filtered_results(FoundByDone, t)
         IN /\ t > done.call.th => \A i \in DOMAIN other : Contains(done.ret.l, other[i])
            /\ t < done.call.th => \A i \in DOMAIN done.ret.l : Contains(other, done.ret.l[i])

\* C12 witness: a search at the lower threshold has returned two entries, of
\* which the higher threshold keeps one.
C12_Witness ==
  /\ Ended("ss") /\ done.call.branch = "searched" /\ done.call.th = 4
  /\ Len(done.ret.l) = 2
  /\ \E t \in Thresholds : t > 4 /\ Len(filtered_results(FoundByDone, t)) = 1

\* the chain the server's RagChain holds is set
Ready == inst /\ qa
\* the positions the retriever finds for the question of the last answer
HitsOfResp == Nearest(vs[vector_store_manager].index, resp.q, MAX_RESULTS)

\* C13: answer_question on a RagChain whose QA chain is not set returns an
\* answer that begins with the error marker and no sources.
C13_NotReadyAnswersError ==
  resp.op = "answer" /\ ~qa =>
    /\ resp.result.sources = <<>>
    /\ Len(resp.result.answer) >= 1 /\ resp.result.answer[1] = "Errore:"

\* C13 witness: initialize() was called at startup and did not succeed, both
\* files being there, and answer_question has answered.
C13_Witness ==
  /\ resp.op = "answer" /\ inst /\ ~qa /\ BothExist
  /\ resp.result = [answer |-> NotReadyText, sources |-> <<>>]

\* C14 (as claimed): when retrieval or the LLM call fails inside
\* answer_question on a chain that is set, the answer has no sources and
\* carries the error marker of the not-ready path.
C14_FailureCarriesMarker ==
  resp.op = "answer" /\ resp.ready /\ resp.fail # "" =>
    /\ resp.result.sources = <<>>
    /\ HasMarker(resp.result.answer)

\* C15 (as claimed): a POST /query whose retrieval or generation fails is
\* answered with status 500, never with 200.
C15_FailureIs500 ==
  resp.op = "query" /\ resp.invoked /\ resp.fail # "" => resp.code = 500

\* C16: POST /query answers 503, without invoking answer_question, whenever
\* there is no instance or its QA chain is not set.
C16_NotReadyIs503 ==
  resp.op = "query" /\ ~Ready => resp.code = 503 /\ ~resp.invoked

\* C16 witness: a 503 with both files present and the instance made.
C16_Witness == resp.op = "query" /\ resp.code = 503 /\ inst /\ BothExist

\* C17: initialize() returns True with the QA chain set exactly when load()
\* succeeded and the chain was constructed; otherwise it returns False with
\* the chain unset, whatever it was before.
C17_InitializeReadyIffLoaded ==
  Ended("init") =>
    /\ done.ret = RetBool(qa)
    /\ qa <=> done.call.branch = "ready"
    /\ qa => vs[done.m].loaded /\ faiss.st = "ok" /\ pkl.st = "ok"
    /\ (faiss.st # "ok" \/ pkl.st # "ok") => done.call.branch = "loadfail" /\ vs[done.m] = None

\* C17 witness: initialize() has failed on a chain that was set.
C17_Witness == Ended("init") /\ done.call.had /\ ~qa /\ done.ret = RetBool(FALSE)

\* C18: GET /status reports the chain as ready when it is set, else the
\* vector store as present when both files exist, else as not found; and
\* vector_store_exists exactly when both files exist.
C18_StatusThreeWay ==
  resp.op = "status" =>
    /\ resp.vector_store_exists = BothExist
    /\ resp.rag_status \in {"inizializzato_e_pronto",
                            "vector_store_presente_ma_rag_non_inizializzato",
                            "vector_store_non_trovato"}
    /\ resp.rag_status = "inizializzato_e_pronto" <=> Ready
    /\ resp.rag_status = "vector_store_presente_ma_rag_non_inizializzato"
         <=> ~Ready /\ BothExist

\* C18 witness: only index.faiss exists and the status is "not found".
C18_Witness ==
  /\ resp.op = "status" /\ Exists(faiss) /\ ~Exists(pkl)
  /\ resp.rag_status = "vector_store_non_trovato" /\ ~resp.vector_store_exists

\* C19: the sources of a successful answer are the retrieved chunks, one
\* entry each, in the order of the search, with the chunk's text and metadata.
C19_SourcesMirrorRetrieval ==
  resp.op = "answer" /\ resp.result.answer \in LLMAnswers =>
    /\ Len(resp.result.sources) = Len(HitsOfResp)
    /\ \A i \in DOMAIN resp.result.sources :
         LET c == vs[vector_store_manager].docstore[HitsOfResp[i]]
         IN resp.result.sources[i] = [content |-> page_content(c), metadata |-> metadata(c)]

\* C19 witness: an answer with several sources, the first of them not the
\* first chunk of the index.
C19_Witness ==
  /\ resp.op = "answer" /\ resp.result.answer \in LLMAnswers
  /\ Len(resp.result.sources) >= 2
  /\ resp.result.sources[1].content # page_content(vs[vector_store_manager].docstore[1])

\* a value of JSON types only; a value with every non-finite float replaced
\* by null and nothing else touched
RECURSIVE IsJson(_)
IsJson(obj) ==
  /\ obj.t \in {"null", "bool", "int", "float", "str", "list", "dict"}
  /\ \A i \in DOMAIN obj.v : IsJson(obj.v[i])
RECURSIVE Sanitized(_)
Sanitized(obj) ==
  IF obj.t = "float" /\ obj.a \in {"nan", "inf", "-inf"} THEN Null
  ELSE [obj EXCEPT !.v = [i \in DOMAIN obj.v |-> Sanitized(obj.v[i])]]
RECURSIVE HasNonFinite(_)
HasNonFinite(obj) ==
  \/ obj.t \in {"float", "npfloat"} /\ obj.a \in {"nan", "inf", "-inf"}
  \/ \E i \in DOMAIN obj.v : HasNonFinite(obj.v[i])

\* C20: the body of a 200 response to /query is the answer payload with every
\* non-finite float, at any depth, replaced by null and everything else
\* (numbers, strings, booleans, nulls, the shape and order of lists and
\* dicts) as it was.
C20_ResponseIsSanitizedPayload ==
  resp.op = "query" /\ resp.code = 200 =>
    /\ IsJson(Payload(resp.result)) => resp.body = Sanitized(Payload(resp.result))
    /\ ~HasNonFinite(resp.body)

\* C20 witness: a 200 response whose payload held a non-finite float inside
\* the metadata of a source.
C20_Witness ==
  /\ resp.op = "query" /\ resp.code = 200
  /\ IsJson(Payload(resp.result)) /\ HasNonFinite(Payload(resp.result))
  /\ resp.body # Payload(resp.result)
  /\ \E i \in DOMAIN resp.result.sources :
       resp.result.sources[i].metadata = metadata(2)

\* C21 (as claimed): a document whose text is not longer than 2 * CHUNK_SIZE
\* is stored by create_or_update as exactly one chunk.
C21_SmallUnitIsOneChunk ==
  GoodCou(done) /\ (\A i \in DOMAIN done.call.docs : done.call.docs[i] <= 2 * CHUNK_SIZE)
    => Len(done.call.arg) = Cardinality({i \in DOMAIN done.call.docs : done.call.docs[i] > 0})

\* C30 (as claimed): after clean_vector_store has returned, the directory
\* exists and holds neither index.faiss nor index.pkl, also when the removal
\* of the old directory failed.
C30_CleanLeavesEmptyDirectory ==
  done.call.op = "clean" /\ done.ret.k = "returned"
    => dir /\ ~Exists(faiss) /\ ~Exists(pkl)

\* startup has ended with a failed initialize(): the instance is made, its
\* initialize() has returned and the chain is not set
StartedNotReady == inst /\ ~qa /\ pc[vector_store_manager] = "idle"

\* C25: once the server has started with a failed initialization it stays
\* so whatever the handlers and the scripts do (no step re-runs initialize());
\* every /query answered then is a 503 and /status reports the files as
\* present but the RAG as not initialized when both artifacts exist.
C25_FailedStartStaysNotReady ==
  /\ [][StartedNotReady => StartedNotReady']_vars
  /\ [](StartedNotReady /\ resp.op = "query" => resp.code = 503 /\ ~resp.invoked)
  /\ [](StartedNotReady /\ resp.op = "status" /\ BothExist
          => resp.rag_status = "vector_store_presente_ma_rag_non_inizializzato")

\* C25 witness: a 503 after a failed start, with a valid index on disk that a
\* later create_or_update has written.
C25_Witness ==
  /\ StartedNotReady /\ resp.op = "query" /\ resp.code = 503
  /\ faiss.st = "ok" /\ pkl.st = "ok" /\ faiss.data # <<>> /\ faiss.data = pkl.data

\* manager m is idle or inside the search proper of similarity_search
Searching(m) == pc[m] \in {"idle", "ss_search"}

\* C26: similarity_search runs the steps of load() only while the manager
\* holds no index; an index a manager holds is changed by no step of another
\* manager or of clean_vector_store (only by its own load or create_or_update),
\* and what a search returns is computed from the held index alone.
C26_HeldIndexIsPrivate ==
  /\ [][\A m \in Managers :
          vs[m].loaded /\ Searching(m) /\ Searching(m)' => vs'[m] = vs[m]]_vars
  /\ [](\A m \in Managers :
          call[m].op = "ss" /\ pc[m] \in {"ld_check", "ld_faiss", "ld_pkl"} => ~vs[m].loaded)
  /\ [](Ended("ss") /\ done.call.branch = "searched" =>
          done.ret.l = filtered_results(
                         docs_with_scores(vs[done.m], done.call.q, done.call.kk), done.call.th))

\* C26 witness: a search has returned hits from a held index after the files
\* were removed or rewritten by someone else.
C26_Witness ==
  /\ Ended("ss") /\ done.call.branch = "searched" /\ done.ret.l # <<>>
  /\ faiss # File(vs[done.m].index) /\ pkl # File(vs[done.m].docstore)

\* manager m is inside create_or_update and has not reached save_local
BeforeSave(m) ==
  call[m].op = "cou" /\ pc[m] \in {"cou_exists", "ld_check", "ld_faiss", "ld_pkl",
                                   "cou_add", "cou_new"}

\* C27: a create_or_update in which the embedding call fails leaves both
\* artifacts as they were: the call ends from the step that embeds, before
\* save_local, and no step of the call before save_local (its first step
\* included) writes index.faiss or index.pkl; the calls run one at a time.
C27_EmbeddingFailureWritesNothing ==
  /\ [][\A m \in Managers :
          BeforeSave(m) \/ (pc[m] = "idle" /\ BeforeSave(m)')
            => faiss' = faiss /\ pkl' = pkl]_vars
  /\ [][\A m \in Managers :
          BeforeSave(m) => \A o \in Managers \ {m} : pc'[o] = pc[o] /\ pc[o] = "idle"]_vars
  /\ [][\A m \in Managers :
          call[m].op = "cou" /\ pc'[m] = "idle" /\ done'.ret.e = "embed"
            => pc[m] \in {"cou_add", "cou_new"}]_vars
  /\ [](Ended("cou") /\ done.ret.e = "embed" /\ done.call.branch = "update"
          => faiss = File(vs[done.m].index) /\ pkl = File(vs[done.m].docstore)
             /\ Len(faiss.data) = done.call.base[1])
  /\ [](Ended("cou") /\ done.ret.e = "embed" /\ done.call.branch = "create"
          => ~Exists(faiss) \/ ~Exists(pkl))

\* C27 witness: the embedding call has failed on the update of a valid index,
\* which is still on disk with its entries.
C27_Witness ==
  /\ Ended("cou") /\ done.ret.e = "embed" /\ done.call.branch = "update"
  /\ faiss.st = "ok" /\ pkl.st = "ok" /\ faiss.data # <<>>

\* the answer text holds the substring "Errore:" somewhere
ContainsErrore(text) == \E i \in 1..Len(text) : text[i] = "Errore:"

\* C28: on a ready RagChain /query answers 500 exactly when the answer of
\* answer_question contains "Errore:", whatever failed or did not fail inside
\* it, and 200 with the cleaned payload for every other answer.
C28_MarkerDecidesStatus ==
  resp.op = "query" /\ Ready =>
    /\ resp.invoked
    /\ resp.code \in {200, 500}
    /\ resp.code = 500 <=> ContainsErrore(resp.result.answer)
    /\ resp.code = 200 => resp.body = clean_for_json(Payload(resp.result))

\* C28 witness: a 500 on a ready RagChain although nothing failed: the model's
\* answer holds the marker in the middle of its text.
C28_Witness ==
  /\ resp.op = "query" /\ Ready /\ resp.code = 500 /\ resp.fail = ""
  /\ resp.result.answer \in LLMAnswers /\ resp.result.answer[1] # "Errore:"

\* C29: in every state /status reports "ready" (rag_status
\* "inizializzato_e_pronto") exactly when a /query in that state is not
\* answered 503, whatever the request and whatever is on disk; a /status
\* answered in a state reports that state.
C29_StatusAgreesWithQuery ==
  LET st == get_status(inst, qa, faiss, pkl)
  IN /\ st.status \in {"ready", "not_ready"}
     /\ st.status = "ready" <=> st.rag_status = "inizializzato_e_pronto"
     /\ \A qq \in Queries, fail \in Failures, llm \in LLMAnswers :
          st.status = "ready"
            <=> query_rag(inst, qa, vs[vector_store_manager], qq, fail, llm).code # 503
     /\ resp.op = "status" => resp = st
     /\ resp.op = "query" => (resp.code # 503 <=> st.status = "ready")

\* C29 witness: /status has reported ready after the artifacts were deleted.
C29_Witness ==
  resp.op = "status" /\ resp.status = "ready" /\ ~Exists(faiss) /\ ~Exists(pkl)

\* the units a loader has returned
Units == loader.ret.l
FileTypes == {"excel", "word", "pdf", "csv", "json", "xml"}

\* C22 (as claimed): every unit a loader returns carries a source and a
\* document_type that is one of the six supported types.
C22_UnitsCarryDocumentType ==
  loader.by # "none" /\ loader.ret.k = "returned" =>
    \A i \in DOMAIN Units :
      /\ "source" \in DOMAIN Units[i].metadata
      /\ "document_type" \in DOMAIN Units[i].metadata
      /\ Units[i].metadata.document_type \in FileTypes

\* C23 (as claimed): a loader raises when the source cannot be opened and
\* when the whole document gives no unit; what it returns is never empty and
\* never holds a unit that stands for a failed document.
C23_RaisesOrReturnsUnits ==
  loader.by # "none" =>
    /\ loader.ret.k = "returned" =>
         /\ Units # <<>>
         /\ \A i \in DOMAIN Units :
              "document_type" \in DOMAIN Units[i].metadata
                => Units[i].metadata.document_type # "error"
    /\ ~loader.env.open1 => loader.ret.k = "raised"

\* the sheets of the workbook that have rows and convert, in sheet order
GoodSheets ==
  SelectSeq([i \in 1..Len(loader.src.sheets) |-> i],
            LAMBDA i : loader.src.sheets[i] = "rows")

\* the loader went through the sheets of the workbook with pandas
SheetLoop ==
  \/ loader.by = "ExcelLoader" /\ loader.env.open1
  \/ /\ loader.by = "EnhancedExcelLoader"
     /\ \/ loader.env.parser = "off" /\ loader.env.open1
        \/ loader.env.parser = "raises" /\ (loader.env.open1 \/ loader.env.open2)

\* C24: ExcelLoader.get_documents and the pandas conversion of
\* EnhancedExcelLoader return, for a workbook they could read, one unit for
\* each sheet that has rows and converts, in sheet order, and nothing for an
\* empty sheet or a sheet whose conversion fails; they do not raise.
C24_OneUnitPerGoodSheet ==
  SheetLoop =>
    /\ loader.ret.k = "returned"
    /\ Len(Units) = Len(GoodSheets)
    /\ \A j \in DOMAIN Units :
         /\ Units[j].metadata.sheet_name = GoodSheets[j]
         /\ Units[j].metadata.source = loader.src.path

\* C24 witness: a workbook with an empty sheet, a sheet that fails and, after
\* them, a sheet with rows, which is the one unit returned.
C24_Witness ==
  /\ SheetLoop /\ Len(loader.src.sheets) = 3
  /\ loader.src.sheets[1] = "empty" /\ loader.src.sheets[2] = "bad"
  /\ loader.src.sheets[3] = "rows"
  /\ Len(Units) = 1 /\ Units[1].metadata.sheet_name = 3

====
